---- MODULE Spec2Model ----
(***************************************************************************)
(* The in-memory task store of server.js (the later of the two versions    *)
(* the file holds, lines 246-544): the Map `tasks`, the counter            *)
(* `nextTaskId`, the exported resetTasks, the five /tasks handlers, the     *)
(* ping handler `callback` and the health route.                           *)
(* Node runs every handler to completion, so each handler is one action.   *)
(***************************************************************************)
EXTENDS Integers, Sequences, FiniteSets, TLC

\* ------------------------------------------------------------------ bounds
\* creates are accepted while nextTaskId <= MaxId
MaxId == 3
\* creates are accepted while the store holds fewer than MaxTasks tasks
MaxTasks == 2

\* --------------------------------------------------------- JavaScript values
\* A JSON value of a request body, or undefined for an absent property:
\* its typeof and its literal text.
Undefined == [type |-> "undefined", val |-> "undefined"]
Null == [type |-> "object", val |-> "null"]
Str(s) == [type |-> "string", val |-> s]
Num(s) == [type |-> "number", val |-> s]

TypeOf(v) == v.type

\* ToBoolean: undefined, null, "" and 0 are falsy, everything else is truthy
Truthy(v) ==
    /\ v.type # "undefined"
    /\ v # Null
    /\ v # Str("")
    /\ v # Num("0")

\* a || b
OrElse(a, b) == IF Truthy(a) THEN a ELSE b

Digits == <<"0", "1", "2", "3", "4", "5", "6", "7", "8", "9">>

\* String(n) for a non-negative integer n: its decimal digits
RECURSIVE String(_)
String(n) ==
    IF n < 10 THEN Digits[n + 1]
    ELSE String(n \div 10) \o Digits[(n % 10) + 1]

\* ------------------------------------------------------------------ inputs
TitleVals == {Undefined, Str(""), Str("A"), Num("123")}
DescVals == {Undefined, Str("d"), Null, Num("123")}
\* a client may send an id property in a body; the handlers never read it
BodyIdVals == {Undefined, Str("9")}

\* req.body || {} : the properties the handlers can see; the bodies that carry
\* an id are those whose other properties are absent or strings
Bodies ==
    [title : TitleVals, description : DescVals, id : {Undefined},
     msg : {Undefined}]
    \cup [title : {Undefined, Str("A")}, description : {Undefined, Str("d")},
          id : BodyIdVals, msg : {Undefined}]
EmptyBody ==
    [title |-> Undefined, description |-> Undefined, id |-> Undefined,
     msg |-> Undefined]

\* reading req.body.msg when req.body is undefined throws a TypeError
Throws == [type |-> "throw", val |-> "TypeError"]

\* what reading req.body.msg gives the ping handler
PingMsgs ==
    {Throws, Undefined, Null, Str(""), Str("Ping"), Str("ping"), Str("Pepe"),
     Num("123")}

\* req.params.id: every id the counter can produce, and strings it cannot
ReqIds == {String(k) : k \in 1..MaxId} \cup {"01"}

\* ------------------------------------------------------------------- state
VARIABLES
    tasks,        \* the Map: its entries [key, val] in insertion order
    nextTaskId,   \* the id counter
    req,          \* the request being handled, NoReq between requests
    res,          \* the response of the request being handled
    created,      \* ids returned by the successful creates since the last reset
    fresh,        \* id -> record returned by its create, while the task is untouched
    deleted,      \* ids deleted since the last reset
    deletedEver,  \* ids deleted since the process started
    log           \* the Sentry events of the request being handled, those of
                  \* the request logger's finish callback included

vars == <<tasks, nextTaskId, req, res, created, fresh, deleted, deletedEver, log>>

NoTask == [id |-> Undefined, title |-> Undefined, description |-> Undefined]
NoReq == [op |-> "none", id |-> "", body |-> EmptyBody]
\* a response: the status, the properties of its JSON body and the number of
\* times the handler has sent it
NoRes ==
    [status |-> 0, error |-> "", task |-> NoTask, list |-> <<>>, msg |-> "",
     health |-> "", sends |-> 0]

\* ------------------------------------------------------------------ the Map
MapHas(m, k) == \E i \in 1..Len(m) : m[i].key = k

\* a slip: the oldest entry returned for every key that is present
MapGetFirst(m, k) == IF MapHas(m, k) THEN m[1].val ELSE NoTask

\* Map.prototype.get: the value, or undefined
MapGet(m, k) ==
    IF MapHas(m, k)
    THEN m[CHOOSE i \in 1..Len(m) : m[i].key = k].val
    ELSE NoTask

\* a slip: an existing key is removed and added again, so it moves to the end
MapSetReinsert(m, k, v) ==
    Append(SelectSeq(m, LAMBDA e : e.key # k), [key |-> k, val |-> v])

\* Map.prototype.set: an existing key keeps its place, a new key goes last
MapSet(m, k, v) ==
    IF MapHas(m, k)
    THEN [i \in 1..Len(m) |-> IF m[i].key = k THEN [key |-> k, val |-> v] ELSE m[i]]
    ELSE Append(m, [key |-> k, val |-> v])

\* a slip: the oldest entry is removed instead of the entry of key k
MapDeleteOldest(m, k) == IF MapHas(m, k) THEN Tail(m) ELSE m

\* Map.prototype.delete
MapDelete(m, k) == SelectSeq(m, LAMBDA e : e.key # k)

\* Array.from(m.values())
MapValues(m) == [i \in 1..Len(m) |-> m[i].val]

MapKeys(m) == {m[i].key : i \in 1..Len(m)}

\* --------------------------------------------------------------- responses
Json(status, task) ==
    [NoRes EXCEPT !.status = status, !.task = task, !.sends = 1]
JsonList(status, list) ==
    [NoRes EXCEPT !.status = status, !.list = list, !.sends = 1]
JsonError(status, msg) ==
    [NoRes EXCEPT !.status = status, !.error = msg, !.sends = 1]
Send(status) == [NoRes EXCEPT !.status = status, !.sends = 1]
\* res.status(200).json({ msg })
JsonMsg(status, msg) == [NoRes EXCEPT !.status = status, !.msg = msg, !.sends = 1]
\* res.status(200).json({ status })
JsonHealth(status, h) ==
    [NoRes EXCEPT !.status = status, !.health = h, !.sends = 1]

Idle == req = NoReq

\* -------------------------------------------------------------- Sentry events
\* process.env.SENTRY_LOG_REQUESTS is unset: (... || "") === "true" is false
SENTRY_LOG_REQUESTS == FALSE

CaptureException(msg) == [kind |-> "captureException", msg |-> msg]
LogError(msg) == [kind |-> "error", msg |-> msg]
LogWarn(msg) == [kind |-> "warn", msg |-> msg]
LogInfo(msg) == [kind |-> "info", msg |-> msg]

\* the request logger's res.on("finish") callback
RequestLog(status) ==
    IF SENTRY_LOG_REQUESTS \/ status >= 400
    THEN IF status >= 500 THEN <<LogError("[HTTP]")>>
         ELSE IF status >= 400 THEN <<LogWarn("[HTTP]")>>
         ELSE <<LogInfo("[HTTP]")>>
    ELSE <<>>

\* a read may also be handled straight after another read
CanRead == Idle \/ req.op \in {"get", "list"}

Init ==
    /\ tasks = <<>>
    /\ nextTaskId = 1
    /\ req = NoReq
    /\ res = NoRes
    /\ created = <<>>
    /\ fresh = <<>>
    /\ deleted = {}
    /\ deletedEver = {}
    /\ log = <<>>

\* export const resetTasks
resetTasks ==
    /\ Idle
    /\ tasks' = <<>>
    /\ nextTaskId' = 1
    /\ created' = <<>>
    /\ fresh' = <<>>
    /\ deleted' = {}
    /\ UNCHANGED <<req, res, deletedEver, log>>

\* a slip: only the type of title is checked
CreateRejectsTypeOnly(body) == TypeOf(body.title) # "string"

\* if (!title || typeof title !== "string") throw
CreateRejects(body) == ~Truthy(body.title) \/ TypeOf(body.title) # "string"

\* const task = { id, title, description: description || "" }
NewTask(id, body) ==
    [id |-> Str(id), title |-> body.title,
     description |-> OrElse(body.description, Str(""))]

\* a slip: String(++nextTaskId)
AllocIdPreIncrement(n) == String(n + 1)

\* a slip: the id taken from the size of the store
AllocIdBySize(n) == String(Len(tasks) + 1)

\* String(nextTaskId++): the id is the counter's value before the increment
AllocId(n) == String(n)

\* a slip: the id allocated before the title is validated
CounterAfterCreateEager(n, rejected) == n + 1

\* nextTaskId++ runs only after the validation has passed
CounterAfterCreate(n, rejected) == IF rejected THEN n ELSE n + 1

\* app.post("/tasks")
CreateTask(body) ==
    /\ Idle
    /\ nextTaskId <= MaxId
    /\ Len(tasks) < MaxTasks
    /\ req' = [op |-> "create", id |-> "", body |-> body]
    /\ nextTaskId' = CounterAfterCreate(nextTaskId, CreateRejects(body))
    /\ IF CreateRejects(body)
       THEN /\ res' = JsonError(400, "Field \"title\" is required")
            /\ log' = <<CaptureException(res'.error),
                        LogWarn("Task create validation failed")>>
                      \o RequestLog(res'.status)
            /\ UNCHANGED <<tasks, created, fresh>>
       ELSE LET id == AllocId(nextTaskId)
                task == NewTask(id, body)
            IN /\ tasks' = MapSet(tasks, id, task)
               /\ res' = Json(201, task)
               /\ created' = Append(created, res'.task.id.val)
               /\ fresh' = (id :> res'.task) @@ fresh
               /\ log' = <<LogInfo("Task created")>> \o RequestLog(res'.status)
    /\ UNCHANGED <<deleted, deletedEver>>

\* app.get("/tasks")
ListTasks ==
    /\ CanRead
    /\ req' = [op |-> "list", id |-> "", body |-> EmptyBody]
    /\ res' = JsonList(200, MapValues(tasks))
    /\ log' = <<LogInfo("Tasks listed")>> \o RequestLog(res'.status)
    /\ UNCHANGED <<tasks, nextTaskId, created, fresh, deleted, deletedEver>>

\* app.get("/tasks/:id")
GetTask(id) ==
    /\ CanRead
    /\ req' = [op |-> "get", id |-> id, body |-> EmptyBody]
    /\ LET task == MapGet(tasks, id)
       IN IF task = NoTask
          THEN /\ res' = JsonError(404, "Task not found")
               /\ log' = <<LogWarn("Task not found")>> \o RequestLog(res'.status)
          ELSE /\ res' = Json(200, task)
               /\ log' = <<LogInfo("Task retrieved")>> \o RequestLog(res'.status)
    /\ UNCHANGED <<tasks, nextTaskId, created, fresh, deleted, deletedEver>>

\* the client no longer holds an untouched copy of task k
Forget(f, k) == [x \in DOMAIN f \ {k} |-> f[x]]

\* a slip: { ...task, ...req.body }
MergeBody(task, body) ==
    [id |-> IF body.id # Undefined THEN body.id ELSE task.id,
     title |-> IF body.title # Undefined THEN body.title ELSE task.title,
     description |-> IF body.description # Undefined THEN body.description
                     ELSE task.description]

\* { ...task, ...(title !== undefined ? { title } : {}),
\*   ...(description !== undefined ? { description } : {}) }
Merge(task, body) ==
    [id |-> task.id,
     title |-> IF body.title # Undefined THEN body.title ELSE task.title,
     description |-> IF body.description # Undefined THEN body.description
                     ELSE task.description]

\* a slip: the type check left out
BadFieldUnchecked(v) == FALSE

\* title !== undefined && typeof title !== "string"
BadField(v) == v # Undefined /\ TypeOf(v) # "string"

\* a slip: the patch validated before the task is looked up
UpdateErrorValidateFirst(task, body) ==
    IF BadField(body.title)
    THEN JsonError(400, "Field \"title\" must be a string")
    ELSE IF BadField(body.description)
    THEN JsonError(400, "Field \"description\" must be a string")
    ELSE IF task = NoTask
    THEN JsonError(404, "Task not found")
    ELSE NoRes

\* the early returns of the update handler, NoRes when it goes on to merge
UpdateError(task, body) ==
    IF task = NoTask
    THEN JsonError(404, "Task not found")
    ELSE IF BadField(body.title)
    THEN JsonError(400, "Field \"title\" must be a string")
    ELSE IF BadField(body.description)
    THEN JsonError(400, "Field \"description\" must be a string")
    ELSE NoRes

\* the update handler warns before its two 400 responses, not before its 404
UpdateErrorLog(r) ==
    IF r.status = 400 THEN <<LogWarn("Task update validation failed")>> ELSE <<>>

\* app.put("/tasks/:id")
UpdateTask(id, body) ==
    /\ Idle
    /\ req' = [op |-> "update", id |-> id, body |-> body]
    /\ LET task == MapGet(tasks, id)
       IN IF UpdateError(task, body) # NoRes
          THEN /\ res' = UpdateError(task, body)
               /\ log' = UpdateErrorLog(res') \o RequestLog(res'.status)
               /\ UNCHANGED <<tasks, fresh>>
          ELSE LET updated == Merge(task, body)
               IN /\ tasks' = MapSet(tasks, task.id.val, updated)
                  /\ res' = Json(200, updated)
                  /\ fresh' = Forget(fresh, id)
                  /\ log' = <<LogInfo("Task updated")>> \o RequestLog(res'.status)
    /\ UNCHANGED <<nextTaskId, created, deleted, deletedEver>>

\* app.delete("/tasks/:id")
DeleteTask(id) ==
    /\ Idle
    /\ req' = [op |-> "delete", id |-> id, body |-> EmptyBody]
    /\ LET existed == MapHas(tasks, id)
       IN /\ tasks' = MapDelete(tasks, id)
          /\ IF ~existed
             THEN /\ res' = JsonError(404, "Task not found")
                  /\ log' = <<LogWarn("Task delete missing")>>
                            \o RequestLog(res'.status)
                  /\ UNCHANGED <<fresh, deleted, deletedEver>>
             ELSE /\ res' = Send(204)
                  /\ log' = <<LogInfo("Task deleted")>> \o RequestLog(res'.status)
                  /\ fresh' = Forget(fresh, id)
                  /\ deleted' = deleted \cup {id}
                  /\ deletedEver' = deletedEver \cup {id}
    /\ UNCHANGED <<nextTaskId, created>>

\* a slip: any truthy msg accepted
PingRejectsFalsy(msg) == msg = Throws \/ ~Truthy(msg)

\* !req.body.msg || req.body.msg !== "Ping", or the read of msg throws
PingRejects(msg) == msg = Throws \/ ~Truthy(msg) \/ msg # Str("Ping")

\* error.message of what the try block threw
PingError(msg) ==
    IF msg = Throws
    THEN "Cannot read properties of undefined (reading 'msg')"
    ELSE "Request Body should be \"Ping\""

\* export const callback: app.post("/")
callback(msg) ==
    /\ Idle
    /\ req' = [op |-> "ping", id |-> "", body |-> [EmptyBody EXCEPT !.msg = msg]]
    /\ res' = IF PingRejects(msg)
              THEN JsonError(400, PingError(msg))
              ELSE JsonMsg(200, "Pong")
    /\ log' = (IF PingRejects(msg) THEN <<CaptureException(res'.error)>> ELSE <<>>)
              \o RequestLog(res'.status)
    /\ UNCHANGED <<tasks, nextTaskId, created, fresh, deleted, deletedEver>>

\* app.get("/health")
Health ==
    /\ Idle
    /\ req' = [op |-> "health", id |-> "", body |-> EmptyBody]
    /\ res' = JsonHealth(200, "ok")
    /\ log' = RequestLog(res'.status)
    /\ UNCHANGED <<tasks, nextTaskId, created, fresh, deleted, deletedEver>>

\* response finished: the request and response objects are dropped
Finish ==
    /\ ~Idle
    /\ req' = NoReq
    /\ res' = NoRes
    /\ log' = <<>>
    /\ UNCHANGED <<tasks, nextTaskId, created, fresh, deleted, deletedEver>>

Next ==
    \/ resetTasks
    \/ \E body \in Bodies : CreateTask(body)
    \/ ListTasks
    \/ \E id \in ReqIds : GetTask(id)
    \/ \E id \in ReqIds, body \in Bodies : UpdateTask(id, body)
    \/ \E id \in ReqIds : DeleteTask(id)
    \/ \E msg \in PingMsgs : callback(msg)
    \/ Health
    \/ Finish

Spec == Init /\ [][Next]_vars

\* =================================================================== claims
NotFound == JsonError(404, "Task not found")

\* the request just handled is a create that succeeded
Created == req.op = "create" /\ res.status = 201

\* C1: since the last reset (or the start), the k-th successful create has
\* returned the decimal string of k, whatever failed creates, reads, updates
\* and deletes came between; the returned ids are therefore pairwise distinct
\* and increase in creation order.
C1_KthCreateReturnsK ==
    /\ \A k \in 1..Len(created) : created[k] = ToString(k)
    /\ \A j, k \in 1..Len(created) : j # k => created[j] # created[k]
    /\ Created => res.task.id = Str(ToString(Len(created)))

\* a third id handed out after a task was deleted
C1_Witness ==
    /\ Created
    /\ Len(created) = 3
    /\ deleted # {}

\* C2 as stated: over the whole process lifetime, resets included, a create
\* never returns an id whose task was deleted earlier.
C2_NeverReusedInLifetime == Created => res.task.id.val \notin deletedEver

\* C2 amended: a create never returns an id whose task was deleted since the
\* last reset.
C2_NeverReusedSinceReset == Created => res.task.id.val \notin deleted

\* a create that follows a delete with no reset between them
C2_Witness ==
    /\ Created
    /\ deleted # {}

\* C3: every stored task's description is a string.
C3_DescriptionIsString ==
    \A i \in 1..Len(tasks) : TypeOf(tasks[i].val.description) = "string"

\* C4: every stored task has a title, and it is a string.
C4_TitleIsString ==
    \A i \in 1..Len(tasks) :
        /\ tasks[i].val.title # Undefined
        /\ TypeOf(tasks[i].val.title) = "string"

\* an update that set the title of a stored task
C4_Witness ==
    /\ req.op = "update"
    /\ res.status = 200
    /\ req.body.title # Undefined
    /\ tasks # <<>>

\* title is missing, falsy or not a string
TitleUnusable(t) ==
    \/ t = Undefined
    \/ t \in {Null, Str(""), Num("0")}
    \/ t.type # "string"

\* C5: create answers 400 {error: 'Field "title" is required'} exactly when
\* title is missing, falsy or not a string; otherwise it answers 201 with the
\* record it stored, whose title is the one sent, whose id is a string and
\* whose description is "" when none was sent.
C5_CreateResponse ==
    req.op = "create" =>
        IF TitleUnusable(req.body.title)
        THEN res = JsonError(400, "Field \"title\" is required")
        ELSE /\ res.status = 201
             /\ res.error = ""
             /\ TypeOf(res.task.id) = "string"
             /\ MapHas(tasks, res.task.id.val)
             /\ res.task = MapGet(tasks, res.task.id.val)
             /\ res.task.title = req.body.title
             /\ req.body.description = Undefined => res.task.description = Str("")

\* a create that sent a title and no description
C5_Witness ==
    /\ Created
    /\ req.body.description = Undefined
    /\ res.task.description = Str("")

\* the field is present in the patch and is not a string
NonString(v) == v.type \notin {"undefined", "string"}

\* C6: update looks the id up before it validates the patch: an id that is not
\* in the store answers 404 for every patch; only for an id in the store does
\* a non-string title answer 400 'Field "title" must be a string' and, the
\* title being acceptable, a non-string description answer 400
\* 'Field "description" must be a string'.
C6_ExistenceBeforeValidation ==
    [][req'.op = "update" =>
        LET b == req'.body
        IN /\ ~MapHas(tasks, req'.id) => res' = NotFound
           /\ res'.status = 400 => MapHas(tasks, req'.id)
           /\ MapHas(tasks, req'.id) /\ NonString(b.title) =>
                res' = JsonError(400, "Field \"title\" must be a string")
           /\ MapHas(tasks, req'.id) /\ ~NonString(b.title)
                                     /\ NonString(b.description) =>
                res' = JsonError(400, "Field \"description\" must be a string")
           /\ MapHas(tasks, req'.id) /\ ~NonString(b.title)
                                     /\ ~NonString(b.description) =>
                res'.status = 200
    ]_vars

\* an update of an id that is not in the store, its patch carrying a
\* non-string title, answered 404 while the store holds other tasks
C6_Witness ==
    /\ req.op = "update"
    /\ NonString(req.body.title)
    /\ ~MapHas(tasks, req.id)
    /\ tasks # <<>>
    /\ res = NotFound

\* C7: a successful update replaces exactly the title and the description the
\* patch carries and returns the merged record; a field the patch lacks keeps
\* its value, the record's id and its key stay as they were whatever the
\* patch holds, and every other entry and the counter are unchanged.
C7_UpdateFrame ==
    [][req'.op = "update" /\ res'.status = 200 =>
        LET b == req'.body
            old == MapGet(tasks, req'.id)
            new == MapGet(tasks', req'.id)
        IN /\ MapHas(tasks, req'.id)
           /\ res'.task = new
           /\ new.id = old.id
           /\ new.id = Str(req'.id)
           /\ new.title = IF b.title = Undefined THEN old.title ELSE b.title
           /\ new.description = IF b.description = Undefined
                                THEN old.description ELSE b.description
           /\ b.title = Undefined /\ b.description = Undefined => tasks' = tasks
           /\ Len(tasks') = Len(tasks)
           /\ \A i \in 1..Len(tasks) :
                /\ tasks'[i].key = tasks[i].key
                /\ tasks[i].key # req'.id => tasks'[i] = tasks[i]
           /\ nextTaskId' = nextTaskId
    ]_vars

\* an update of one of two stored tasks whose patch carries a title and an id
\* and no description
C7_Witness ==
    /\ req.op = "update"
    /\ res.status = 200
    /\ req.body.title # Undefined
    /\ req.body.description = Undefined
    /\ req.body.id # Undefined
    /\ Len(tasks) = 2

\* m without its i-th entry
Without(m, i) == SubSeq(m, 1, i - 1) \o SubSeq(m, i + 1, Len(m))

\* C8: delete of an id in the store answers 204 and removes that entry and
\* nothing else; delete of any other id answers 404 and changes nothing; the
\* counter is unchanged either way; and a get, update or delete of an id that
\* was deleted (since the last reset) answers 404 {error: "Task not found"}.
C8_Delete ==
    [][/\ req'.op = "delete" =>
            /\ nextTaskId' = nextTaskId
            /\ IF MapHas(tasks, req'.id)
               THEN /\ res' = Send(204)
                    /\ ~MapHas(tasks', req'.id)
                    /\ \E i \in 1..Len(tasks) :
                          /\ tasks[i].key = req'.id
                          /\ tasks' = Without(tasks, i)
               ELSE /\ res' = NotFound
                    /\ tasks' = tasks
       /\ req'.op \in {"get", "update", "delete"} /\ req'.id \in deleted =>
            res' = NotFound
    ]_vars

\* a get of a deleted id answered 404 while another task is still stored
C8_Witness ==
    /\ req.op = "get"
    /\ req.id \in deleted
    /\ res = NotFound
    /\ tasks # <<>>

\* C9: a get of an id whose task has not been updated, deleted or reset since
\* its create answers 200 with the record that create returned.
C9_CreateGetRoundTrip ==
    req.op = "get" /\ req.id \in DOMAIN fresh =>
        /\ res.status = 200
        /\ res.error = ""
        /\ res.task = fresh[req.id]

\* a get of the untouched second task, after the first task was updated
C9_Witness ==
    /\ req.op = "get"
    /\ res.status = 200
    /\ req.id \in DOMAIN fresh
    /\ Len(tasks) = 2
    /\ tasks[1].key \notin DOMAIN fresh
    /\ tasks[2].key = req.id

\* the ids of a list response, in the order of the array
ListedIds == [i \in 1..Len(res.list) |-> res.list[i].id.val]

\* C10: list answers 200 with the stored tasks, each exactly once and nothing
\* else, in the order of their creation: an updated task keeps its place and
\* a deleted task is not listed.
C10_List ==
    req.op = "list" =>
        /\ res.status = 200
        /\ Len(res.list) = Cardinality(MapKeys(tasks))
        /\ \A i \in 1..Len(res.list) :
              /\ MapHas(tasks, ListedIds[i])
              /\ res.list[i] = MapGet(tasks, ListedIds[i])
              /\ ListedIds[i] \notin deleted
        /\ \A k \in MapKeys(tasks) : \E i \in 1..Len(res.list) : ListedIds[i] = k
        /\ ListedIds = SelectSeq(created, LAMBDA x : x \in MapKeys(tasks))

\* a list of two tasks, the older of them updated since its create, after
\* another task was deleted
C10_Witness ==
    /\ req.op = "list"
    /\ Len(res.list) = 2
    /\ ListedIds[1] \notin DOMAIN fresh
    /\ ListedIds[2] \in DOMAIN fresh
    /\ deleted # {}

\* C11: get, list, health and ping, and every task request answered 400 or
\* 404, leave the Map and the counter as they were; a get of the same id, or a
\* list, handled straight after another one gets the identical response.
C11_ReadsAndFailuresChangeNothing ==
    [][/\ req'.op \in {"get", "list", "health", "ping"}
            \/ res'.status \in {400, 404} =>
            /\ tasks' = tasks
            /\ nextTaskId' = nextTaskId
       /\ req.op = "get" /\ req'.op = "get" /\ req'.id = req.id => res' = res
       /\ req.op = "list" /\ req'.op = "list" => res' = res
    ]_vars

\* a create answered 400 while the store holds a task and the counter has
\* moved on
C11_Witness ==
    /\ req.op = "create"
    /\ res.status = 400
    /\ tasks # <<>>
    /\ nextTaskId > 1

\* C12: ping answers 200 {msg: "Pong"} exactly when the body's msg is the
\* string "Ping"; for every other body (no body, msg absent, empty, or any
\* other value) it answers 400 with an error string; it sends exactly one
\* response.
C12_Ping ==
    req.op = "ping" =>
        /\ res.sends = 1
        /\ IF req.body.msg = Str("Ping")
           THEN res = JsonMsg(200, "Pong")
           ELSE /\ res.status = 400
                /\ res.error # ""
                /\ res.msg = ""

\* a ping whose msg differs from "Ping" only in case, answered 400
C12_Witness ==
    /\ req.op = "ping"
    /\ req.body.msg = Str("ping")
    /\ res.status = 400

\* the request just handled failed a validation of the task handlers
ValidationFailed ==
    \/ req.op = "create" /\ TitleUnusable(req.body.title)
    \/ /\ req.op = "update"
       /\ MapHas(tasks, req.id)
       /\ NonString(req.body.title) \/ NonString(req.body.description)

\* C13: every validation failure of create and update is answered 400 with
\* the message of the field that failed, and the events logged for it are
\* warnings or lower: none is an exception-level event.
C13_ValidationNotAnException ==
    ValidationFailed =>
        /\ res.status = 400
        /\ res.error \in {"Field \"title\" is required",
                          "Field \"title\" must be a string",
                          "Field \"description\" must be a string"}
        /\ \A i \in 1..Len(log) : log[i].kind \in {"warn", "info"}

====
